---- MODULE Spec2Model ----
(***************************************************************************)
(* Model of part1_github_agent/github_agent.py: the resilient request      *)
(* executor http_get_json, the paginated fetcher paginate_repos, the fold  *)
(* analyze_repos over normalized records, and the developer loop of run    *)
(* with the exit code of main.                                             *)
(*                                                                         *)
(* Spec is one developer on a server with every kind of fault, RunSpec a   *)
(* batch of three developers that a signal may interrupt, FoldSpec         *)
(* analyze_repos on record lists with timestamps of every shape.  Time is  *)
(* counted in days, timestamps are at midnight UTC.                        *)
(*                                                                         *)
(* Python strings are modelled as sequences of tokens (a token is one      *)
(* character or one indivisible piece of text such as a URL), so that      *)
(* split, strip, find, slicing, isdigit and int are computed as the code   *)
(* computes them.  None and "" are only ever tested for truthiness by the  *)
(* code modelled here and are both the empty sequence.                     *)
(***************************************************************************)
EXTENDS Integers, Sequences, FiniteSets, TLC

\* ------------------------------------------------------------------ bounds
\* Largest number of http_get_json calls of one pagination that are explored.
MaxPages == 2
\* Largest number of records in a list handed to analyze_repos on its own.
MaxRepos == 3

\* ------------------------------------------------------- program constants
GITHUB_API_ROOT == "https://api.github.com"
retries == 3
sleep_seconds == 1
SleepCap == 60

\* ------------------------------------------------------------ string model
Range(s) == {s[i] : i \in 1..Len(s)}

Truthy(s) == Len(s) > 0

\* str.find(tok, from): least index >= from holding tok, 0 when there is none
\* (indexes are 1-based here, so Python's -1 is 0 and Python's i is i + 1).
Find(s, tok, from) ==
    LET hits == {i \in from..Len(s) : s[i] = tok}
    IN IF hits = {} THEN 0 ELSE CHOOSE i \in hits : \A j \in hits : i <= j

\* str.split(sep)
RECURSIVE Split(_, _)
Split(s, sep) ==
    LET i == Find(s, sep, 1)
    IN IF i = 0 THEN <<s>>
       ELSE <<SubSeq(s, 1, i - 1)>> \o Split(SubSeq(s, i + 1, Len(s)), sep)

\* str.strip()
RECURSIVE Strip(_)
Strip(s) ==
    IF Len(s) = 0 THEN s
    ELSE IF s[1] = " " THEN Strip(Tail(s))
    ELSE IF s[Len(s)] = " " THEN Strip(SubSeq(s, 1, Len(s) - 1))
    ELSE s

Digits == {"0", "1", "2", "3", "4", "5", "6", "7", "8", "9"}

DigitVal(c) ==
    CASE c = "0" -> 0 [] c = "1" -> 1 [] c = "2" -> 2 [] c = "3" -> 3
      [] c = "4" -> 4 [] c = "5" -> 5 [] c = "6" -> 6 [] c = "7" -> 7
      [] c = "8" -> 8 [] c = "9" -> 9

\* str.isdigit(): non-empty and every character a digit
isdigit(s) == Len(s) > 0 /\ \A i \in 1..Len(s) : s[i] \in Digits

\* int(s) of a digit string
RECURSIVE int(_)
int(s) ==
    IF Len(s) = 0 THEN 0
    ELSE 10 * int(SubSeq(s, 1, Len(s) - 1)) + DigitVal(s[Len(s)])

Max(a, b) == IF a >= b THEN a ELSE b
Min(a, b) == IF a <= b THEN a ELSE b

\* A dict is a set of <<key, value>> pairs with distinct keys.
\* dict.get(key): the value, or None (the empty sequence) when key is absent
Get(d, k) ==
    IF \E p \in d : p[1] = k THEN (CHOOSE p \in d : p[1] = k)[2] ELSE <<>>

\* -------------------------------------------------------------- the program
VARIABLES
    username,      \* dev.username of the developer being fetched
    headers,       \* build_headers(token), shared by every request
    url,           \* paginate_repos: url (<<>> is None)
    pc,            \* "request": inside http_get_json, before an attempt;
                   \* "page": http_get_json returned, line 124 assigns;
                   \* "yield": suspended in the for loop of lines 127-128;
                   \* "done": the generator is exhausted;
                   \* "raised": an exception left http_get_json and paginate_repos
    attempt,       \* http_get_json: attempt
    last_err,      \* http_get_json: last_err
    data,          \* paginate_repos: data
    resp_headers,  \* paginate_repos: resp_headers
    idx,           \* position of the for loop of line 127 in data
    yielded,       \* history: the items the generator has yielded so far
    error,         \* the exception that propagated to the caller
    trace,         \* history: the attempts of the current http_get_json call
    calls,         \* history: the url of every http_get_json call
    pages,         \* history: the pages returned, with the links the server sent
    repos,         \* run: the list the comprehension of line 249 builds
    phase,         \* run and main: "fetch" (line 249), "fold" (analyze_repos),
                   \* "report" (lines 251-276), "failed" (an exception has
                   \* left run), "finished" (run returned)
    developers,    \* run: developers, as usernames
    di,            \* run: position of the for loop of line 247
    since_days,    \* run: since_days
    clock,         \* the last value read from the clock, in days
    fi,            \* analyze_repos: records folded so far
    acc,           \* analyze_repos: the accumulators
    metrics,       \* run: metrics
    previous,      \* history: the metrics of an earlier call on the same list
    report_files,  \* the files <username>.json of out_dir, as (name, content)
    summary_rows,  \* run: summary_rows
    summary_csv    \* the file summary.csv: <<>> while absent, else <<rows>>

runVars == <<developers, di, since_days, clock, fi, acc, metrics, previous,
             report_files, summary_rows, summary_csv>>

vars == <<username, headers, url, pc, attempt, last_err, data, resp_headers,
          idx, yielded, error, trace, calls, pages, repos, phase, runVars>>

\* ---------------------------------------------------------- the environment
Usernames == {"octocat"}
Tokens == {<<>>, <<"ghp_token">>}

REL_NEXT == "rel=\"next\""
REL_LAST == "rel=\"last\""
REL_PREV == "rel=\"prev\""

\* line 122
FirstPageUrl(user) ==
    <<GITHUB_API_ROOT, "/users/", user, "/repos?per_page=100&type=owner&sort=updated">>

Page2Url == <<"https://api.github.com/user/583231/repos?page=2">>
Page3Url == <<"https://api.github.com/user/583231/repos?page=3">>

\* What the server puts into a Link header: a sequence of (url, rel) links.
Link(u, r) == [url |-> u, rel |-> r]

\* The Link headers the server may send: the links, and the header's name as
\* it arrives.
LinkHeaders(user) ==
    { [links |-> <<>>, key |-> "Link"],
      [links |-> <<Link(Page3Url, REL_LAST)>>, key |-> "Link"],
      [links |-> <<Link(Page2Url, REL_NEXT), Link(Page3Url, REL_LAST)>>, key |-> "Link"],
      [links |-> <<Link(Page2Url, REL_PREV), Link(FirstPageUrl(user), REL_NEXT)>>,
       key |-> "link"] }

\* The server's rendering of a Link header value:
\* <url>; rel="next", <url>; rel="last"
RECURSIVE FormatLinks(_)
FormatLinks(links) ==
    IF Len(links) = 0 THEN <<>>
    ELSE LET one == <<"<">> \o links[1].url \o <<">", ";", " ", links[1].rel>>
         IN IF Len(links) = 1 THEN one
            ELSE one \o <<",", " ">> \o FormatLinks(Tail(links))

\* Response headers of a 2xx: no Link header when the server has no links.
OkHeaders(links, key) ==
    IF Len(links) = 0 THEN {} ELSE {<<key, FormatLinks(links)>>}

\* ------------------------------------------------------------- repositories
\* An optional value is <<>> (None, or a key that is absent) or <<v>>.
\* Timestamps are strings: year-month, "-", two day digits, the time of day
\* and a zone that is "Z", "+00:00" or missing.
Stamp(ym, d1, d2, zone) == <<ym, "-", d1, d2, "T00:00:00">> \o zone
Zulu == <<"Z">>
Utc == <<"+00:00">>
NoZone == <<>>

\* One repository object of the API's JSON array (the keys the program reads,
\* and one it does not).
RawRepo(id, name, language, stars, forks, updated_at, pushed_at) ==
    [id |-> id, name |-> name, html_url |-> <<"https://github.com/", name>>,
     description |-> <<>>, language |-> language,
     stargazers_count |-> stars, forks_count |-> forks, open_issues_count |-> <<>>,
     created_at |-> Stamp("2024-01", "0", "1", Zulu),
     updated_at |-> updated_at, pushed_at |-> pushed_at]

Repo1 == RawRepo(1, "r1", <<"Python">>, <<5>>, <<>>,
                 Stamp("2024-01", "1", "5", Zulu), Stamp("2024-01", "2", "0", Zulu))
Repo2 == RawRepo(2, "r2", <<>>, <<>>, <<2>>,
                 Stamp("2024-03", "1", "0", Zulu), <<>>)

\* Decoded JSON bodies: arrays of records, or an object.
JsonList(items) == [type |-> "list", items |-> items]
JsonDict == [type |-> "dict", items |-> <<>>]
Bodies == {JsonList(<<>>), JsonList(<<Repo1>>), JsonList(<<Repo2, Repo1, Repo2>>), JsonDict}

\* What the server holds for the other accounts: one or two pages of two
\* records, or an object.
OtherBodies == {JsonList(<<Repo2, Repo1>>), JsonDict}
OtherLinkHeaders ==
    { [links |-> <<>>, key |-> "Link"],
      [links |-> <<Link(Page2Url, REL_NEXT), Link(Page2Url, REL_LAST)>>, key |-> "Link"] }

\* The 2xx responses the server may send for a developer's pages.
ServerBodies(user) == IF user \in Usernames THEN Bodies ELSE OtherBodies
ServerLinkHeaders(user) ==
    IF user \in Usernames THEN LinkHeaders(user) ELSE OtherLinkHeaders

\* str(n) of a non-negative integer, as the server writes a reset epoch.
DigitChar(d) ==
    CASE d = 0 -> "0" [] d = 1 -> "1" [] d = 2 -> "2" [] d = 3 -> "3"
      [] d = 4 -> "4" [] d = 5 -> "5" [] d = 6 -> "6" [] d = 7 -> "7"
      [] d = 8 -> "8" [] d = 9 -> "9"

RECURSIVE ToDigits(_)
ToDigits(n) ==
    IF n < 10 THEN <<DigitChar(n)>> ELSE ToDigits(n \div 10) \o <<DigitChar(n % 10)>>

\* The X-RateLimit-Reset header of an error response: absent, present with a
\* text that is not a number, or present with a reset epoch.
ResetAbsent == [kind |-> "absent", epoch |-> 0, text |-> <<>>]
ResetText(t) == [kind |-> "text", epoch |-> 0, text |-> t]
ResetEpoch(n) == [kind |-> "epoch", epoch |-> n, text |-> ToDigits(n)]

ResetEpochs == {5, 15, 40, 200}
ResetTexts == {<<>>, <<"a", "5">>, <<"-", "5">>}
ResetHeaders ==
    {ResetAbsent} \cup {ResetText(t) : t \in ResetTexts}
                  \cup {ResetEpoch(n) : n \in ResetEpochs}

\* The HTTP error responses the server may send.
HttpErrors ==
    {[code |-> 403, reset |-> r] : r \in ResetHeaders}
    \cup {[code |-> c, reset |-> r] : c \in {404, 503}, r \in {ResetAbsent, ResetEpoch(15)}}
    \cup {[code |-> 500, reset |-> ResetAbsent]}

OtherHttpErrors ==
    {[code |-> 404, reset |-> ResetAbsent], [code |-> 503, reset |-> ResetAbsent]}

\* The HTTP error responses the server may send for a developer's pages.
ServerErrors(user) == IF user \in Usernames THEN HttpErrors ELSE OtherHttpErrors

\* e.headers of an HTTPError
ErrorHeaders(reset) ==
    IF reset.kind = "absent" THEN {} ELSE {<<"X-RateLimit-Reset", reset.text>>}

\* int(time.time()) at line 93
Nows == {10}

\* Exceptions
NoError == [type |-> "None", code |-> 0]
HTTPError(code) == [type |-> "HTTPError", code |-> code]
URLError == [type |-> "URLError", code |-> 0]
JSONDecodeError == [type |-> "JSONDecodeError", code |-> 0]
TypeError == [type |-> "TypeError", code |-> 0]
KeyboardInterrupt == [type |-> "KeyboardInterrupt", code |-> 0]

\* ----------------------------------------------------------- normalize_repo
\* int(x or 0) of an optional integer
IntOrZero(v) == IF v = <<>> THEN 0 ELSE IF v[1] = 0 THEN 0 ELSE v[1]

\* lines 200-212
normalize_repo(repo) ==
    [name |-> repo.name, html_url |-> repo.html_url,
     description |-> repo.description, language |-> repo.language,
     stargazers_count |-> IntOrZero(repo.stargazers_count),
     forks_count |-> IntOrZero(repo.forks_count),
     open_issues_count |-> IntOrZero(repo.open_issues_count),
     created_at |-> repo.created_at, updated_at |-> repo.updated_at,
     pushed_at |-> repo.pushed_at]

\* ---------------------------------------------------------------- iso_to_dt
\* The calendar: the months that occur, in order, with their lengths.
YearMonths == <<"2024-01", "2024-02", "2024-03">>
DaysIn(ym) == CASE ym = "2024-01" -> 31 [] ym = "2024-02" -> 29 [] ym = "2024-03" -> 31
MonthIndex(ym) == CHOOSE i \in 1..Len(YearMonths) : YearMonths[i] = ym

RECURSIVE DaysBefore(_)
DaysBefore(i) == IF i <= 1 THEN 0 ELSE DaysBefore(i - 1) + DaysIn(YearMonths[i - 1])

\* A datetime: its date, and whether it carries a UTC offset (is "aware").
\* Ordinal is its day number from 2024-01-01 = 1; the zones that occur are
\* UTC, so aware datetimes compare by it, and so do naive ones.
DateTime(ym, day, aware) == [ym |-> ym, day |-> day, aware |-> aware]
Ordinal(d) == DaysBefore(MonthIndex(d.ym)) + d.day

\* str.replace(old, new), old being one token
RECURSIVE Replace(_, _, _)
Replace(s, old, new) ==
    IF Len(s) = 0 THEN <<>>
    ELSE (IF s[1] = old THEN new ELSE <<s[1]>>) \o Replace(Tail(s), old, new)

\* datetime.fromisoformat: <<d>> for a date, or a date and time with or
\* without a UTC offset; <<>> stands for the ValueError it raises otherwise.
fromisoformat(t) ==
    LET dateOk == /\ Len(t) >= 4
                  /\ t[1] \in Range(YearMonths) /\ t[2] = "-"
                  /\ t[3] \in Digits /\ t[4] \in Digits
                  /\ int(<<t[3], t[4]>>) \in 1..DaysIn(t[1])
        rest == SubSeq(t, 5, Len(t))
    IN IF dateOk /\ rest \in {<<>>, <<"T00:00:00">>}
         THEN <<DateTime(t[1], int(<<t[3], t[4]>>), FALSE)>>
       ELSE IF dateOk /\ rest = <<"T00:00:00", "+00:00">>
         THEN <<DateTime(t[1], int(<<t[3], t[4]>>), TRUE)>>
       ELSE <<>>

\* lines 143-149: None for a missing, empty or unparseable string
iso_to_dt(s) ==
    IF ~Truthy(s) THEN <<>> ELSE fromisoformat(Replace(s, "Z", <<"+00:00">>))

\* datetime.isoformat()
TwoDigits(n) == IF n < 10 THEN <<"0", DigitChar(n)>> ELSE ToDigits(n)
isoformat(d) ==
    <<d.ym, "-">> \o TwoDigits(d.day) \o <<"T00:00:00">>
        \o (IF d.aware THEN <<"+00:00">> ELSE <<>>)

\* ------------------------------------------------------------ analyze_repos
\* Mutant of Increment: a key that is present keeps its count.
Increment_Once(table, key) ==
    IF \E i \in 1..Len(table) : table[i].key = key
      THEN table
      ELSE Append(table, [key |-> key, n |-> 1])

\* A Counter or defaultdict(int) is the sequence of its (key, n) items in
\* insertion order.  table[key] += 1
Increment(table, key) ==
    IF \E i \in 1..Len(table) : table[i].key = key
      THEN [i \in 1..Len(table) |->
              IF table[i].key = key THEN [key |-> key, n |-> table[i].n + 1]
                                    ELSE table[i]]
      ELSE Append(table, [key |-> key, n |-> 1])

\* Mutant of InitialAcc: the cutoff is the time of the call.
InitialAcc_NoWindow(now, days) ==
    [total_stars |-> 0, total_forks |-> 0, languages |-> <<>>,
     last_pushed_at |-> <<>>, last_updated_at |-> <<>>, monthly_update_counts |-> <<>>,
     cutoff |-> now, updated_last_30d |-> 0, updated_last_90d |-> 0]

\* lines 153-161: the accumulators before the first record; cutoff is
\* datetime.now(utc) - timedelta(days=since_days), as a day number.
InitialAcc(now, days) ==
    [total_stars |-> 0, total_forks |-> 0, languages |-> <<>>,
     last_pushed_at |-> <<>>, last_updated_at |-> <<>>, monthly_update_counts |-> <<>>,
     cutoff |-> now - days, updated_last_30d |-> 0, updated_last_90d |-> 0]

\* Comparing an aware datetime with a naive one raises TypeError.
Comparable(x, y) == x.aware = y.aware

\* lines 171, 173, 179: the comparisons of one record that raise TypeError;
\* the clock and cutoff are aware.
RaisesTypeError(a, repo) ==
    LET pushed == iso_to_dt(repo.pushed_at)
        updated == iso_to_dt(repo.updated_at)
    IN \/ /\ pushed # <<>> /\ a.last_pushed_at # <<>>
          /\ ~Comparable(pushed[1], a.last_pushed_at[1])
       \/ /\ updated # <<>> /\ a.last_updated_at # <<>>
          /\ ~Comparable(updated[1], a.last_updated_at[1])
       \/ /\ updated # <<>> /\ ~updated[1].aware

\* Mutant of Latest: the timestamp seen last replaces the one held.
Latest_LastSeen(last, seen) == IF seen # <<>> THEN seen ELSE last

\* lines 171-174: the later of the two, the old one on a tie
Latest(last, seen) ==
    IF seen # <<>> /\ (last = <<>> \/ Ordinal(seen[1]) > Ordinal(last[1]))
      THEN seen ELSE last

\* lines 164-182: one iteration of the for loop; now is the clock read at
\* line 179.
FoldRecord(a, repo, now) ==
    LET pushed == iso_to_dt(repo.pushed_at)
        updated == iso_to_dt(repo.updated_at)
    IN [total_stars |-> a.total_stars + IntOrZero(<<repo.stargazers_count>>),
        total_forks |-> a.total_forks + IntOrZero(<<repo.forks_count>>),
        languages |-> IF Truthy(repo.language)
                        THEN Increment(a.languages, repo.language) ELSE a.languages,
        last_pushed_at |-> Latest(a.last_pushed_at, pushed),
        last_updated_at |-> Latest(a.last_updated_at, updated),
        monthly_update_counts |->
            IF updated # <<>> THEN Increment(a.monthly_update_counts, updated[1].ym)
                              ELSE a.monthly_update_counts,
        cutoff |-> a.cutoff,
        updated_last_30d |->
            IF updated # <<>> /\ Ordinal(updated[1]) >= now - 30
              THEN a.updated_last_30d + 1 ELSE a.updated_last_30d,
        updated_last_90d |->
            IF updated # <<>> /\ Ordinal(updated[1]) >= a.cutoff
              THEN a.updated_last_90d + 1 ELSE a.updated_last_90d]

\* sorted(..., reverse=True) by count, as Counter.most_common() does: a stable
\* sort, items of equal count keep their order.
RECURSIVE InsertByCount(_, _)
InsertByCount(sorted, item) ==
    IF Len(sorted) = 0 THEN <<item>>
    ELSE IF sorted[1].n >= item.n
      THEN <<sorted[1]>> \o InsertByCount(Tail(sorted), item)
      ELSE <<item>> \o sorted

\* Mutant of most_common: of two items of equal count the one seen later
\* comes first.
most_common_TiesReversed(table) ==
    LET n == Len(table)
        rank(i) == 1 + Cardinality({j \in 1..n : \/ table[j].n > table[i].n
                                                 \/ table[j].n = table[i].n /\ j > i})
    IN [r \in 1..n |-> table[CHOOSE i \in 1..n : rank(i) = r]]

RECURSIVE most_common(_)
most_common(table) ==
    IF Len(table) = 0 THEN <<>>
    ELSE InsertByCount(most_common(SubSeq(table, 1, Len(table) - 1)), table[Len(table)])

\* sorted(monthly_update_counts.items()): ascending by key
RECURSIVE InsertByKey(_, _)
InsertByKey(sorted, item) ==
    IF Len(sorted) = 0 THEN <<item>>
    ELSE IF MonthIndex(sorted[1].key) <= MonthIndex(item.key)
      THEN <<sorted[1]>> \o InsertByKey(Tail(sorted), item)
      ELSE <<item>> \o sorted

RECURSIVE SortedByKey(_)
SortedByKey(table) ==
    IF Len(table) = 0 THEN <<>>
    ELSE InsertByKey(SortedByKey(SubSeq(table, 1, Len(table) - 1)), table[Len(table)])

\* Mutant of Metrics: repo_count counts the records that name a language.
Metrics_CountLanguages(a, rs) ==
    [repo_count |-> Cardinality({i \in 1..Len(rs) : Truthy(rs[i].language)}),
     total_stars |-> a.total_stars,
     total_forks |-> a.total_forks,
     languages |-> most_common(a.languages),
     updated_last_30d |-> a.updated_last_30d,
     updated_last_90d |-> a.updated_last_90d,
     last_pushed_at |-> IF a.last_pushed_at # <<>>
                          THEN isoformat(a.last_pushed_at[1]) ELSE <<>>,
     last_updated_at |-> IF a.last_updated_at # <<>>
                           THEN isoformat(a.last_updated_at[1]) ELSE <<>>,
     monthly_update_counts |-> SortedByKey(a.monthly_update_counts)]

\* lines 184-197
Metrics(a, rs) ==
    [repo_count |-> Len(rs),
     total_stars |-> a.total_stars,
     total_forks |-> a.total_forks,
     languages |-> most_common(a.languages),
     updated_last_30d |-> a.updated_last_30d,
     updated_last_90d |-> a.updated_last_90d,
     last_pushed_at |-> IF a.last_pushed_at # <<>>
                          THEN isoformat(a.last_pushed_at[1]) ELSE <<>>,
     last_updated_at |-> IF a.last_updated_at # <<>>
                           THEN isoformat(a.last_updated_at[1]) ELSE <<>>,
     monthly_update_counts |-> SortedByKey(a.monthly_update_counts)]

\* ------------------------------------------------------------ build_headers
build_headers(token) ==
    {<<"Accept", <<"application/vnd.github+json">>>>,
     <<"User-Agent", <<"qa-assignment-github-agent">>>>}
    \cup (IF Truthy(token) THEN {<<"Authorization", <<"Bearer ">> \o token>>} ELSE {})

\* ------------------------------------------------------------ http_get_json
\* lines 89-91: e.code == 403 and reset and reset.isdigit()
IsRateLimited(code, hdrs) ==
    LET reset == Get(hdrs, "X-RateLimit-Reset")
    IN code = 403 /\ Truthy(reset) /\ isdigit(reset)

\* lines 92-94: wait = max(0, reset_epoch - now) + 1
RateLimitWait(reset, now) == Max(0, int(reset) - now) + 1

\* line 96: time.sleep(min(wait, 60))
RateLimitSleep(wait) == Min(wait, SleepCap)

\* Mutant of IsServerError: every status from 400 up counts as retryable.
IsServerError_From400(code) == 400 <= code /\ code < 600

\* line 99: 500 <= e.code < 600
IsServerError(code) == 500 <= code /\ code < 600

\* Mutant of Backoff: a constant delay instead of a linear one.
Backoff_Constant(att) == sleep_seconds

\* lines 100, 107, 113: time.sleep(sleep_seconds * (attempt + 1))
Backoff(att) == sleep_seconds * (att + 1)

\* One attempt as the history records it: the request made (line 78), the
\* response (kind "ok": 2xx with a JSON body, "http": HTTPError, "url":
\* URLError, "other": any other exception), the X-RateLimit-Reset header the
\* server sent, the sleep that followed (<<>> when none) and the clock value
\* read at line 93 (0 when it was not read).
Attempt(kind, code, slept, reset, now) ==
    [url |-> url, headers |-> headers, kind |-> kind, code |-> code,
     slept |-> slept, reset |-> reset, now |-> now]

\* `raise`: the exception leaves http_get_json, and paginate_repos with it.
Raise(e) ==
    /\ pc' = "raised"
    /\ phase' = "failed"
    /\ error' = e
    /\ UNCHANGED <<attempt, last_err>>

\* Mutant of Continue: the loop goes on after the iteration attempt = retries.
Continue_Unbounded(e) ==
    /\ last_err' = e
    /\ attempt' = Min(attempt + 1, retries)
    /\ UNCHANGED <<pc, phase, error>>

\* last_err = e; continue.  The for loop of line 77 ends after the iteration
\* attempt = retries, and lines 116-117 then raise last_err.
Continue(e) ==
    /\ last_err' = e
    /\ IF attempt + 1 < retries + 1
          THEN attempt' = attempt + 1 /\ UNCHANGED <<pc, phase, error>>
          ELSE pc' = "raised" /\ phase' = "failed" /\ error' = e /\ UNCHANGED attempt

\* lines 80-86 and 124: a 2xx response with a JSON body is returned.
Returned ==
    /\ pc = "request"
    /\ \E body \in ServerBodies(username), lh \in ServerLinkHeaders(username) :
          /\ trace' = Append(trace, Attempt("ok", 200, <<>>, ResetAbsent, 0))
          /\ data' = body
          /\ resp_headers' = OkHeaders(lh.links, lh.key)
          /\ pages' = Append(pages, [url |-> url, data |-> body, links |-> lh.links])
    /\ pc' = "page"
    /\ UNCHANGED <<username, headers, url, attempt, last_err, idx, yielded, error, calls>>
    /\ UNCHANGED <<repos, phase, runVars>>

\* lines 87-103: urlopen raised HTTPError.
OnHTTPError ==
    /\ pc = "request"
    /\ \E e \in ServerErrors(username), now \in Nows :
          LET hdrs == ErrorHeaders(e.reset)
          IN IF IsRateLimited(e.code, hdrs)
               THEN LET wait == RateLimitWait(Get(hdrs, "X-RateLimit-Reset"), now)
                    IN /\ trace' = Append(trace, Attempt("http", e.code,
                                        <<RateLimitSleep(wait)>>, e.reset, now))
                       /\ Continue(HTTPError(e.code))
               ELSE IF IsServerError(e.code) /\ attempt < retries
               THEN /\ trace' = Append(trace, Attempt("http", e.code,
                                     <<Backoff(attempt)>>, e.reset, 0))
                    /\ Continue(HTTPError(e.code))
               ELSE /\ trace' = Append(trace, Attempt("http", e.code, <<>>, e.reset, 0))
                    /\ Raise(HTTPError(e.code))
    /\ UNCHANGED <<username, headers, url, data, resp_headers, idx, yielded, calls, pages>>
    /\ UNCHANGED <<repos, runVars>>

\* Mutant of OnURLError: a transport failure is raised at once, never retried.
OnURLError_NoRetry ==
    /\ pc = "request"
    /\ trace' = Append(trace, Attempt("url", 0, <<>>, ResetAbsent, 0))
    /\ last_err' = URLError
    /\ pc' = "raised"
    /\ phase' = "failed"
    /\ error' = URLError
    /\ UNCHANGED attempt
    /\ UNCHANGED <<username, headers, url, data, resp_headers, idx, yielded, calls, pages>>
    /\ UNCHANGED <<repos, runVars>>

\* lines 104-109: urlopen raised URLError (a transport failure).
OnURLError ==
    /\ pc = "request"
    /\ IF attempt < retries
         THEN /\ trace' = Append(trace, Attempt("url", 0, <<Backoff(attempt)>>, ResetAbsent, 0))
              /\ Continue(URLError)
         ELSE /\ trace' = Append(trace, Attempt("url", 0, <<>>, ResetAbsent, 0))
              /\ last_err' = URLError
              /\ pc' = "raised"
              /\ phase' = "failed"
              /\ error' = URLError
              /\ UNCHANGED attempt
    /\ UNCHANGED <<username, headers, url, data, resp_headers, idx, yielded, calls, pages>>
    /\ UNCHANGED <<repos, runVars>>

\* lines 110-115: any other exception; json.loads of a 2xx body that is not
\* JSON raises one.
OnException ==
    /\ pc = "request"
    /\ IF attempt < retries
         THEN /\ trace' = Append(trace, Attempt("other", 200, <<Backoff(attempt)>>, ResetAbsent, 0))
              /\ Continue(JSONDecodeError)
         ELSE /\ trace' = Append(trace, Attempt("other", 200, <<>>, ResetAbsent, 0))
              /\ last_err' = JSONDecodeError
              /\ pc' = "raised"
              /\ phase' = "failed"
              /\ error' = JSONDecodeError
              /\ UNCHANGED attempt
    /\ UNCHANGED <<username, headers, url, data, resp_headers, idx, yielded, calls, pages>>
    /\ UNCHANGED <<repos, runVars>>

\* ----------------------------------------------------------- paginate_repos
\* Mutant of IsList: the isinstance check is dropped.
IsList_Always(d) == TRUE

\* line 125: isinstance(data, list)
IsList(d) == d.type = "list"

\* Mutant of ScanParts: the first part with a <...> pair, whatever its rel.
RECURSIVE ScanParts_AnyRel(_, _)
ScanParts_AnyRel(parts, i) ==
    IF i > Len(parts) THEN <<>>
    ELSE LET p == parts[i]
             start == Find(p, "<", 1)
             end == Find(p, ">", start + 1)
         IN IF start # 0 /\ end # 0
              THEN SubSeq(p, start + 1, end - 1)
              ELSE ScanParts_AnyRel(parts, i + 1)

\* lines 130-140: the url of the first part of the Link header that holds
\* rel="next" and a <...> pair; None when there is none.
RECURSIVE ScanParts(_, _)
ScanParts(parts, i) ==
    IF i > Len(parts) THEN <<>>
    ELSE LET p == parts[i]
             start == Find(p, "<", 1)
             end == Find(p, ">", start + 1)
         IN IF REL_NEXT \in Range(p) /\ start # 0 /\ end # 0
              THEN SubSeq(p, start + 1, end - 1)
              ELSE ScanParts(parts, i + 1)

\* line 133: [p.strip() for p in link_header.split(",")]
LinkParts(link_header) ==
    LET raw == Split(link_header, ",")
    IN [i \in 1..Len(raw) |-> Strip(raw[i])]

\* lines 129-140
NextPageUrl(hdrs) ==
    LET link_header == IF Truthy(Get(hdrs, "Link")) THEN Get(hdrs, "Link")
                       ELSE Get(hdrs, "link")
    IN IF Truthy(link_header) THEN ScanParts(LinkParts(link_header), 1) ELSE <<>>

\* lines 129-140 and 123-124: the for loop is over; take the next url and,
\* when there is one, call http_get_json with it.
FollowLink ==
    LET next == NextPageUrl(resp_headers)
    IN /\ url' = next
       /\ IF Truthy(next)
            THEN /\ Len(calls) < MaxPages
                 /\ pc' = "request"
                 /\ attempt' = 0
                 /\ last_err' = NoError
                 /\ trace' = <<>>
                 /\ calls' = Append(calls, next)
            ELSE /\ pc' = "done"
                 /\ UNCHANGED <<attempt, last_err, trace, calls>>

\* lines 125-128: the page just returned; not a list ends the stream, a list
\* is iterated and its first item yielded.
PageReceived ==
    /\ pc = "page"
    /\ IF ~IsList(data)
         THEN /\ pc' = "done"
              /\ UNCHANGED <<url, attempt, last_err, trace, calls, idx, yielded, repos>>
         ELSE IF Len(data.items) = 0
         THEN FollowLink /\ UNCHANGED <<idx, yielded, repos>>
         ELSE /\ idx' = 1
              /\ yielded' = Append(yielded, data.items[1])
              /\ repos' = Append(repos, normalize_repo(data.items[1]))
              /\ pc' = "yield"
              /\ UNCHANGED <<url, attempt, last_err, trace, calls>>
    /\ UNCHANGED <<username, headers, data, resp_headers, error, pages>>
    /\ UNCHANGED <<phase, runVars>>

\* Mutant of YieldNext: an item already yielded is not yielded again.
YieldNext_SkipSeen ==
    /\ pc = "yield"
    /\ IF idx < Len(data.items)
         THEN /\ idx' = idx + 1
              /\ yielded' = IF \E k \in 1..Len(yielded) : yielded[k] = data.items[idx + 1]
                               THEN yielded
                               ELSE Append(yielded, data.items[idx + 1])
              /\ repos' = IF \E k \in 1..Len(yielded) : yielded[k] = data.items[idx + 1]
                             THEN repos
                             ELSE Append(repos, normalize_repo(data.items[idx + 1]))
              /\ UNCHANGED <<url, pc, attempt, last_err, trace, calls>>
         ELSE FollowLink /\ UNCHANGED <<idx, yielded, repos>>
    /\ UNCHANGED <<username, headers, data, resp_headers, error, pages>>
    /\ UNCHANGED <<phase, runVars>>

\* lines 127-128: the consumer asks for the next item.
YieldNext ==
    /\ pc = "yield"
    /\ IF idx < Len(data.items)
         THEN /\ idx' = idx + 1
              /\ yielded' = Append(yielded, data.items[idx + 1])
              /\ repos' = Append(repos, normalize_repo(data.items[idx + 1]))
              /\ UNCHANGED <<url, pc, attempt, last_err, trace, calls>>
         ELSE FollowLink /\ UNCHANGED <<idx, yielded, repos>>
    /\ UNCHANGED <<username, headers, data, resp_headers, error, pages>>
    /\ UNCHANGED <<phase, runVars>>

\* ---------------------------------------------------------------------- run
\* The clock, in days from 2024-01-01 = 1; a read returns the time of the
\* last read or a later one.
Clocks == 100..101
ClockReads == {t \in Clocks : t >= clock}

\* lines 249-250 and 153-161: the generator is exhausted, the comprehension
\* of line 249 is complete and analyze_repos starts; the generator's frame and
\* that of its last http_get_json call are gone.
AnalyzeStart ==
    /\ phase = "fetch"
    /\ pc = "done"
    /\ \E now \in ClockReads :
          /\ clock' = now
          /\ acc' = InitialAcc(now, since_days)
    /\ fi' = 0
    /\ phase' = "fold"
    /\ url' = <<>>
    /\ attempt' = 0
    /\ last_err' = NoError
    /\ data' = JsonDict
    /\ resp_headers' = {}
    /\ idx' = 0
    /\ trace' = <<>>
    /\ UNCHANGED <<username, headers, pc, yielded, error, calls, pages, repos>>
    /\ UNCHANGED <<developers, di, since_days, metrics, previous, report_files,
                   summary_rows, summary_csv>>

\* lines 163-182: one record is folded, or one of its comparisons raises
\* TypeError, which leaves analyze_repos and run.
FoldStep ==
    /\ phase = "fold"
    /\ fi < Len(repos)
    /\ IF RaisesTypeError(acc, repos[fi + 1])
         THEN /\ phase' = "failed"
              /\ error' = TypeError
              /\ UNCHANGED <<clock, fi, acc>>
         ELSE /\ \E now \in ClockReads :
                    /\ clock' = now
                    /\ acc' = FoldRecord(acc, repos[fi + 1], now)
              /\ fi' = fi + 1
              /\ UNCHANGED <<phase, error>>
    /\ UNCHANGED <<username, headers, url, pc, attempt, last_err, data, resp_headers,
                   idx, yielded, trace, calls, pages, repos>>
    /\ UNCHANGED <<developers, di, since_days, metrics, previous, report_files,
                   summary_rows, summary_csv>>

\* lines 184-197 and 250: analyze_repos returns the metrics.
FoldFinish ==
    /\ phase = "fold"
    /\ fi = Len(repos)
    /\ metrics' = Metrics(acc, repos)
    /\ phase' = "report"
    /\ UNCHANGED <<username, headers, url, pc, attempt, last_err, data, resp_headers,
                   idx, yielded, error, trace, calls, pages, repos>>
    /\ UNCHANGED <<developers, di, since_days, clock, fi, acc, previous, report_files,
                   summary_rows, summary_csv>>

\* lines 251-261: the report of the current developer (without the run's
\* integrity_token, the time of writing and the profile url)
Report ==
    [developer |-> [name |-> username, username |-> username],
     metrics |-> metrics, repos |-> repos]

\* lines 264-275: the developer's row of the rollup (without integrity_token
\* and profile url)
SummaryRow ==
    [name |-> username, username |-> username,
     repo_count |-> metrics.repo_count, total_stars |-> metrics.total_stars,
     total_forks |-> metrics.total_forks,
     updated_last_30d |-> metrics.updated_last_30d,
     updated_last_90d |-> metrics.updated_last_90d,
     last_updated_at |-> metrics.last_updated_at]

\* Mutant of WriteJson: the directory is emptied before the file is written.
WriteJson_Truncate(files, name, content) == {<<name, content>>}

\* line 262: write_json(<out_dir>/<username>.json, report) replaces the file
\* of that name.
WriteJson(files, name, content) ==
    {f \in files : f[1] # name} \cup {<<name, content>>}

\* Mutant of WriteSummaryCsv: the first row is taken for the header line.
WriteSummaryCsv_DropFirst(rows) == IF Len(rows) = 0 THEN <<>> ELSE <<Tail(rows)>>

\* lines 224-232: no file for no rows
WriteSummaryCsv(rows) == IF Len(rows) = 0 THEN <<>> ELSE <<rows>>

\* The metrics before analyze_repos has returned any.
NoMetrics == Metrics(InitialAcc(0, 0), <<>>)

\* Mutant of WriteReport: the next developer's fetch starts before the report
\* of the current one is written; reports are written after the last fetch.
WriteReport_Deferred ==
    /\ phase = "report"
    /\ IF di < Len(developers)
         THEN /\ UNCHANGED <<report_files, summary_rows>>
              /\ di' = di + 1
              /\ username' = developers[di + 1]
              /\ url' = FirstPageUrl(developers[di + 1])
              /\ calls' = <<FirstPageUrl(developers[di + 1])>>
              /\ pc' = "request"
              /\ phase' = "fetch"
              /\ pages' = <<>>
              /\ yielded' = <<>>
              /\ repos' = <<>>
              /\ fi' = 0
              /\ acc' = InitialAcc(0, 0)
              /\ metrics' = NoMetrics
              /\ UNCHANGED summary_csv
         ELSE /\ report_files' = WriteJson(report_files, username, Report)
              /\ summary_rows' = Append(summary_rows, SummaryRow)
              /\ summary_csv' = WriteSummaryCsv(summary_rows')
              /\ phase' = "finished"
              /\ UNCHANGED <<di, username, url, calls, pc, pages, yielded, repos,
                             fi, acc, metrics>>
    /\ UNCHANGED <<headers, attempt, last_err, data, resp_headers, idx, error, trace>>
    /\ UNCHANGED <<developers, since_days, clock, previous>>

\* lines 251-276, then line 247 for the next developer (with lines 121-124,
\* the first call of its pagination) or lines 278-280 after the last one.
WriteReport ==
    /\ phase = "report"
    /\ report_files' = WriteJson(report_files, username, Report)
    /\ summary_rows' = Append(summary_rows, SummaryRow)
    /\ IF di < Len(developers)
         THEN /\ di' = di + 1
              /\ username' = developers[di + 1]
              /\ url' = FirstPageUrl(developers[di + 1])
              /\ calls' = <<FirstPageUrl(developers[di + 1])>>
              /\ pc' = "request"
              /\ phase' = "fetch"
              /\ pages' = <<>>
              /\ yielded' = <<>>
              /\ repos' = <<>>
              /\ fi' = 0
              /\ acc' = InitialAcc(0, 0)
              /\ metrics' = NoMetrics
              /\ UNCHANGED summary_csv
         ELSE /\ summary_csv' = WriteSummaryCsv(summary_rows')
              /\ phase' = "finished"
              /\ UNCHANGED <<di, username, url, calls, pc, pages, yielded, repos,
                             fi, acc, metrics>>
    /\ UNCHANGED <<headers, attempt, last_err, data, resp_headers, idx, error, trace>>
    /\ UNCHANGED <<developers, since_days, clock, previous>>

\* lines 293-303: what main returns once run has returned or an exception has
\* left it: 0, 130 on KeyboardInterrupt and 1 on any other exception; nothing
\* while run is under way.
ExitCode ==
    IF phase = "finished" THEN <<0>>
    ELSE IF phase = "failed" THEN (IF error = KeyboardInterrupt THEN <<130>> ELSE <<1>>)
    ELSE <<>>

\* An interrupt signal while a developer is being fetched: KeyboardInterrupt is
\* raised in the request or sleep under way and caught by no except clause of
\* http_get_json, paginate_repos or run.
Interrupt ==
    /\ phase = "fetch"
    /\ pc \in {"request", "page", "yield"}
    /\ pc' = "raised"
    /\ phase' = "failed"
    /\ error' = KeyboardInterrupt
    /\ UNCHANGED <<username, headers, url, attempt, last_err, data, resp_headers,
                   idx, yielded, trace, calls, pages, repos>>
    /\ UNCHANGED runVars

\* analyze_repos is called once more on the same list (lines 152-161), the
\* metrics of the first call being kept for comparison.
AnalyzeAgain ==
    /\ phase = "report"
    /\ previous = <<>>
    /\ previous' = <<metrics>>
    /\ \E now \in ClockReads :
          /\ clock' = now
          /\ acc' = InitialAcc(now, since_days)
    /\ fi' = 0
    /\ phase' = "fold"
    /\ UNCHANGED <<username, headers, url, pc, attempt, last_err, data, resp_headers,
                   idx, yielded, error, trace, calls, pages, repos>>
    /\ UNCHANGED <<developers, di, since_days, metrics, report_files,
                   summary_rows, summary_csv>>

\* ------------------------------------------------------------ specification
\* line 288: the default of --since-days
DefaultSinceDays == 90

\* The state when run (line 249) starts to iterate paginate_repos for the first
\* of devs: url is the first page (line 122) and http_get_json has been called.
InitRun(devs, days, tokens) ==
    /\ developers = devs
    /\ di = 1
    /\ username = devs[1]
    /\ \E token \in tokens : headers = build_headers(token)
    /\ url = FirstPageUrl(devs[1])
    /\ pc = "request"
    /\ phase = "fetch"
    /\ attempt = 0
    /\ last_err = NoError
    /\ data = JsonDict
    /\ resp_headers = {}
    /\ idx = 0
    /\ yielded = <<>>
    /\ repos = <<>>
    /\ error = NoError
    /\ trace = <<>>
    /\ calls = <<FirstPageUrl(devs[1])>>
    /\ pages = <<>>
    /\ since_days = days
    /\ clock = CHOOSE t \in Clocks : \A u \in Clocks : t <= u
    /\ fi = 0
    /\ acc = InitialAcc(0, 0)
    /\ metrics = NoMetrics
    /\ previous = <<>>
    /\ report_files = {}
    /\ summary_rows = <<>>
    /\ summary_csv = <<>>

\* One developer, fetched without a token from a server and network with
\* every kind of fault.
Init == \E user \in Usernames : InitRun(<<user>>, DefaultSinceDays, {<<>>})

Next ==
    \/ Returned
    \/ OnHTTPError
    \/ OnURLError
    \/ OnException
    \/ PageReceived
    \/ YieldNext
    \/ AnalyzeStart
    \/ FoldStep
    \/ FoldFinish
    \/ WriteReport

Spec == Init /\ [][Next]_vars

\* A batch of developers with distinct usernames, each fetched from a server
\* with few faults, with or without a token, that a signal may interrupt.
Developers == <<"hubot", "ghost", "monalisa">>

RunInit == InitRun(Developers, DefaultSinceDays, Tokens)

RunNext ==
    \/ Returned
    \/ OnHTTPError
    \/ OnURLError
    \/ OnException
    \/ PageReceived
    \/ YieldNext
    \/ AnalyzeStart
    \/ FoldStep
    \/ FoldFinish
    \/ WriteReport
    \/ Interrupt

RunSpec == RunInit /\ [][RunNext]_vars

\* analyze_repos on its own: the records of one developer, whose pagination
\* has ended after one page, with timestamps of every shape.
Garbage == <<"yesterday">>
Repo3 == RawRepo(3, "r3", <<"Go">>, <<1>>, <<1>>,
                 Stamp("2024-02", "0", "1", Utc), Stamp("2024-02", "0", "5", Zulu))
Repo4 == RawRepo(4, "r4", <<"Go">>, <<>>, <<3>>,
                 Garbage, Stamp("2024-02", "0", "1", NoZone))
Repo5 == RawRepo(5, "r5", <<"Python">>, <<2>>, <<>>,
                 Stamp("2024-02", "0", "1", NoZone), <<>>)
Repo6 == RawRepo(6, "r6", <<"Go">>, <<0>>, <<0>>,
                 Stamp("2024-01", "2", "0", Zulu), Stamp("2024-01", "2", "0", Zulu))
FoldRepos == {Repo1, Repo2, Repo3, Repo4, Repo5, Repo6}
RepoLists == UNION {[1..n -> FoldRepos] : n \in 0..MaxRepos}
SinceDays == {7, 30, 90}

\* line 249: [normalize_repo(r) for r in ...]
NormalizeAll(rs) == [i \in 1..Len(rs) |-> normalize_repo(rs[i])]

FoldInit ==
    /\ \E user \in Usernames :
          /\ developers = <<user>>
          /\ username = user
          /\ calls = <<FirstPageUrl(user)>>
    /\ \E rs \in RepoLists :
          /\ yielded = rs
          /\ repos = NormalizeAll(rs)
          /\ pages = <<[url |-> calls[1], data |-> JsonList(rs), links |-> <<>>]>>
    /\ \E days \in SinceDays : since_days = days
    /\ di = 1
    /\ headers = build_headers(<<>>)
    /\ url = <<>>
    /\ pc = "done"
    /\ phase = "fetch"
    /\ attempt = 0
    /\ last_err = NoError
    /\ data = JsonDict
    /\ resp_headers = {}
    /\ idx = 0
    /\ error = NoError
    /\ trace = <<>>
    /\ clock = CHOOSE t \in Clocks : \A u \in Clocks : t <= u
    /\ fi = 0
    /\ acc = InitialAcc(0, 0)
    /\ metrics = NoMetrics
    /\ previous = <<>>
    /\ report_files = {}
    /\ summary_rows = <<>>
    /\ summary_csv = <<>>

FoldNext ==
    \/ AnalyzeStart
    \/ FoldStep
    \/ FoldFinish
    \/ AnalyzeAgain

FoldSpec == FoldInit /\ [][FoldNext]_vars

\* ------------------------------------------------- vocabulary of the claims
\* What the server sent at an attempt, read off the history (not off the
\* branch the code took).
RateLimitResponse(a) == a.kind = "http" /\ a.code = 403 /\ a.reset.kind = "epoch"
ServerErrorResponse(a) == a.kind = "http" /\ a.code \in 500..599
TransportFailure(a) == a.kind = "url"
OtherClientError(a) ==
    a.kind = "http" /\ a.code \in 400..499 /\ ~RateLimitResponse(a)

\* The error an attempt's response stands for.
ErrorOf(a) == IF a.kind = "http" THEN HTTPError(a.code) ELSE URLError

LastAttempt == trace[Len(trace)]

\* The first n attempts of the call all got a response of kind P.
AllOf(P(_), n) == \A i \in 1..n : P(trace[i])

\* The linear-backoff retry policy, for a call whose failed attempts so far
\* all got a response of kind P: at most retries + 1 attempts; the sleep after
\* failed attempt i (before retry number i) is sleep_seconds * i; the failure of
\* attempt retries + 1 is raised without a sleep; a 2xx after k <= retries
\* failures is returned, k + 1 attempts having been made.
RetryPolicy(P(_)) ==
    LET n == Len(trace)
    IN /\ (n >= 1 /\ AllOf(P, n)) =>
            /\ n <= retries + 1
            /\ \A i \in 1..n :
                  trace[i].slept = IF i <= retries THEN <<sleep_seconds * i>> ELSE <<>>
            /\ n <= retries => pc = "request" /\ attempt = n /\ error = NoError
            /\ n = retries + 1 => pc = "raised" /\ error = ErrorOf(trace[n])
       /\ (n >= 1 /\ AllOf(P, n - 1) /\ LastAttempt.kind = "ok" /\ pc = "page") =>
            /\ n - 1 <= retries
            /\ attempt = n - 1
            /\ data = pages[Len(pages)].data
            /\ error = NoError

\* C1 (as claimed): a rate-limited 403 is never the error that http_get_json
\* raises to its caller.
C1_RateLimitNeverSurfaced ==
    pc = "raised" => ~RateLimitResponse(LastAttempt)

\* C2 (as claimed): rate-limited attempts do not use up the retry budget: when
\* a call that saw rate-limited responses and then only 5xx responses or
\* transport failures raises, the run of failures was retries + 1 attempts long.
C2_RateLimitOutsideBudget ==
    \A k \in 0..Len(trace) :
        ( /\ pc = "raised"
          /\ k < Len(trace)
          /\ \A i \in 1..k : RateLimitResponse(trace[i])
          /\ \A i \in (k + 1)..Len(trace) :
                ServerErrorResponse(trace[i]) \/ TransportFailure(trace[i]) )
        => Len(trace) - k = retries + 1

\* C3: a call answered only by 5xx responses, then possibly a 2xx, follows the
\* linear-backoff retry policy with budget retries.
C3_ServerErrorRetry == RetryPolicy(ServerErrorResponse)

C3_Witness ==
    \/ /\ pc = "raised" /\ Len(trace) = retries + 1
       /\ AllOf(ServerErrorResponse, Len(trace))
       /\ trace[1].code # LastAttempt.code
    \/ /\ pc = "page" /\ Len(trace) = 3 /\ AllOf(ServerErrorResponse, 2)
       /\ LastAttempt.kind = "ok" /\ Len(data.items) > 0

\* C4: a call answered only by transport failures, then possibly a 2xx,
\* follows the same linear-backoff retry policy.
C4_TransportRetry == RetryPolicy(TransportFailure)

C4_Witness ==
    /\ pc = "raised" /\ Len(trace) = retries + 1
    /\ AllOf(TransportFailure, Len(trace))
    /\ error = URLError

\* C5: a 4xx response that is not a rate-limit response (any 4xx but 403, or a
\* 403 without an all-digit X-RateLimit-Reset) ends the call at once with that
\* HTTP error: no sleep follows it and it is the last attempt of the call.
C5_ClientErrorImmediate ==
    \A i \in 1..Len(trace) :
        OtherClientError(trace[i]) =>
            /\ trace[i].slept = <<>>
            /\ i = Len(trace)
            /\ pc = "raised"
            /\ error = HTTPError(trace[i].code)

C5_Witness ==
    /\ pc = "raised" /\ Len(trace) = 3
    /\ OtherClientError(LastAttempt)
    /\ LastAttempt.code = 403 /\ LastAttempt.reset.kind = "text"

\* C6 (as claimed): every rate-limited 403 is followed by exactly one sleep of
\* min(max(0, reset - now) + 1, 60) seconds, between 1 and 60, and then by a
\* retry of the same url with the same headers.
C6_RateLimitSleepThenRetry ==
    \A i \in 1..Len(trace) :
        RateLimitResponse(trace[i]) =>
            /\ trace[i].slept =
                  <<Min(Max(0, trace[i].reset.epoch - trace[i].now) + 1, 60)>>
            /\ trace[i].slept[1] \in 1..60
            /\ IF i < Len(trace)
                 THEN /\ trace[i + 1].url = trace[i].url
                      /\ trace[i + 1].headers = trace[i].headers
                 ELSE pc = "request" /\ error = NoError

\* The url of the rel="next" link among the links the server sent.
HasNext(links) == \E i \in 1..Len(links) : links[i].rel = REL_NEXT
NextOf(links) == links[CHOOSE i \in 1..Len(links) : links[i].rel = REL_NEXT].url

\* The records of the first n pages returned, in page order.
RECURSIVE Records(_)
Records(n) ==
    IF n = 0 THEN <<>>
    ELSE Records(n - 1) \o (IF pages[n].data.type = "list" THEN pages[n].data.items
                                                           ELSE <<>>)

\* C7 (as claimed): within one pagination no url is fetched twice.
C7_NoUrlFetchedTwice ==
    \A i, j \in 1..Len(calls) : i # j => calls[i] # calls[j]

\* C8: the urls fetched are the chain that starts at the owner-scoped first
\* page and follows each array page's rel="next" link: every later fetch is of
\* the next link of the page before it, and pagination has ended after a page
\* only if that page has no next link (or is no array).
C8_FetchesFollowNextLinks ==
    /\ calls[1] = FirstPageUrl(username)
    /\ Len(pages) <= Len(calls) /\ Len(calls) <= Len(pages) + 1
    /\ \A i \in 1..Len(pages) : pages[i].url = calls[i]
    /\ \A i \in 2..Len(calls) :
          /\ HasNext(pages[i - 1].links)
          /\ calls[i] = NextOf(pages[i - 1].links)
    /\ pc = "done" =>
          /\ Len(calls) = Len(pages)
          /\ ~HasNext(pages[Len(pages)].links) \/ pages[Len(pages)].data.type # "list"

C8_Witness ==
    /\ pc = "done" /\ Len(calls) = 2 /\ Len(pages) = 2
    /\ HasNext(pages[1].links) /\ pages[1].links[1].rel # REL_NEXT
    /\ pages[2].links # <<>> /\ ~HasNext(pages[2].links)
    /\ pages[2].data.type = "list"

\* C9: the records yielded are the concatenation of the fetched array pages in
\* fetch order, nothing dropped, duplicated, reordered or deduplicated, and
\* all records of a page are yielded before the next page is requested.
C9_YieldedIsConcatenation ==
    LET n == Len(pages)
    IN /\ pc = "request" => n = Len(calls) - 1 /\ yielded = Records(n)
       /\ pc = "page" => yielded = Records(n - 1)
       /\ pc = "yield" =>
            yielded = Records(n - 1) \o SubSeq(pages[n].data.items, 1, idx)
       /\ pc \in {"done", "raised"} => yielded = Records(n)

C9_Witness ==
    /\ pc = "request" /\ Len(pages) = 1 /\ Len(yielded) = 3
    /\ yielded[1] = yielded[3] /\ yielded[1] # yielded[2]

\* C10: a page whose body is not an array ends the stream without error: it
\* is the last page fetched even when it carries a next link, none of it is
\* yielded, and the records of the earlier pages stay.
C10_NonArrayEndsStream ==
    \A i \in 1..Len(pages) :
        pages[i].data.type # "list" =>
            /\ i = Len(pages) /\ Len(calls) = i
            /\ pc \in {"page", "done"}
            /\ error = NoError
            /\ yielded = Records(i - 1)

C10_Witness ==
    /\ pc = "done" /\ Len(pages) = 2
    /\ pages[2].data.type # "list" /\ HasNext(pages[2].links)
    /\ Len(yielded) > 0

\* C11 (as claimed): a 2xx response whose body cannot be parsed as JSON ends
\* the developer's record stream at that page, earlier records kept, and no
\* exception leaves paginate_repos.
C11_MalformedEndsStream ==
    (pc \in {"done", "raised"} /\ Len(trace) > 0 /\ LastAttempt.kind = "other") =>
        /\ pc = "done"
        /\ error = NoError
        /\ yielded = Records(Len(pages))

\* ------------------------------------------------------------- the batch
HasReport(user) == \E f \in report_files : f[1] = user

\* C12 (as claimed): a failure surfaced by the fetch of one developer (an HTTP
\* error or a transport error that http_get_json raised) ends that developer
\* only: when the process has ended, every later developer of the list has its
\* report.
C12_FailureAbortsOneDeveloper ==
    (phase \in {"failed", "finished"} /\ error.type \in {"HTTPError", "URLError"}) =>
        \A j \in (di + 1)..Len(developers) : HasReport(developers[j])

\* C13: developers are processed one after another in input order: whenever
\* developer number di is being fetched, folded or reported, the requests made
\* and records held are its own, every developer before it has its report file
\* and its summary row, in input order, and no developer from di on has one
\* before run has finished.
C13_DevelopersInOrder ==
    LET done == IF phase = "finished" THEN di ELSE di - 1
    IN /\ username = developers[di]
       /\ calls[1] = FirstPageUrl(developers[di])
       /\ \A i \in 1..Len(pages) : pages[i].url = calls[i]
       /\ {f[1] : f \in report_files} = {developers[j] : j \in 1..done}
       /\ Cardinality(report_files) = done
       /\ Len(summary_rows) = done
       /\ \A j \in 1..done : summary_rows[j].username = developers[j]
       /\ phase = "finished" => di = Len(developers)

C13_Witness ==
    /\ phase = "fetch" /\ di = 3 /\ pc = "request"
    /\ Len(calls) = 2 /\ Len(trace) = 2
    /\ HasReport(developers[1]) /\ HasReport(developers[2])

\* C14: a report file is written only when the developer's pagination has
\* ended and the fold has consumed every record yielded, with the metrics of
\* that fold; a step in which the fetch fails or is interrupted writes no
\* file, so the developer has none; and a file, once written, is never
\* changed or removed.
C14_ReportOnlyAfterFold ==
    [][ /\ report_files' # report_files =>
             /\ phase = "report" /\ pc = "done"
             /\ fi = Len(repos) /\ Len(repos) = Len(yielded)
             /\ yielded = Records(Len(pages))
             /\ ~HasReport(username)
             /\ report_files' = report_files \cup
                   {<<username, [developer |-> [name |-> username, username |-> username],
                                 metrics |-> Metrics(acc, repos), repos |-> repos]>>}
        /\ phase' = "failed" =>
             /\ report_files' = report_files
             /\ ~HasReport(username)
        /\ report_files \subseteq report_files' ]_vars

C14_Witness ==
    /\ phase = "failed" /\ error = KeyboardInterrupt
    /\ di = 2 /\ Len(pages) = 2 /\ Len(yielded) = 3
    /\ HasReport(developers[1]) /\ ~HasReport(developers[2])

\* C15: the repo_count of a developer's metrics is the number of records
\* folded, which is the number of records paginate_repos yielded over all its
\* pages, normalize_repo mapping them one to one.
C15_RepoCountIsRecordsFolded ==
    /\ Len(repos) = Len(yielded)
    /\ \A i \in 1..Len(repos) : repos[i] = normalize_repo(yielded[i])
    /\ phase = "report" =>
          /\ metrics.repo_count = fi
          /\ fi = Len(repos)
          /\ Len(yielded) = Len(Records(Len(pages)))

C15_Witness ==
    /\ phase = "report" /\ Len(pages) = 2
    /\ metrics.repo_count = 4 /\ Len(metrics.languages) = 1

\* --------------------------------------------------------------- the fold
\* The timestamps of record i as iso_to_dt parses them, and the count a table
\* holds for a key.
PushedOf(i) == iso_to_dt(repos[i].pushed_at)
UpdatedOf(i) == iso_to_dt(repos[i].updated_at)
CountOf(table, key) ==
    IF \E i \in 1..Len(table) : table[i].key = key
      THEN table[CHOOSE i \in 1..Len(table) : table[i].key = key].n
      ELSE 0
RECURSIVE SumOfCounts(_)
SumOfCounts(table) ==
    IF Len(table) = 0 THEN 0 ELSE table[1].n + SumOfCounts(Tail(table))
DistinctKeys(table) ==
    \A i, j \in 1..Len(table) : table[i].key = table[j].key => i = j

\* No count of table a is larger than the count of the same key in table b.
TableLeq(a, b) == \A i \in 1..Len(a) : a[i].n <= CountOf(b, a[i].key)

\* last is the latest of the datetimes parsed, unset when there is none.
IsLatestOf(last, parsed) ==
    IF parsed = {} THEN last = <<>>
    ELSE /\ last # <<>>
         /\ last[1] \in parsed
         /\ \A d \in parsed : Ordinal(d) <= Ordinal(last[1])

\* C16: from one folded record to the next no accumulator decreases and
\* last_pushed_at / last_updated_at never move to an earlier timestamp; after
\* every prefix of fi records each of the two is the latest timestamp parsed in
\* the prefix, or unset when none parsed.
C16_AccumulatorsMonotone ==
    /\ [](/\ IsLatestOf(acc.last_pushed_at,
                        {PushedOf(i)[1] : i \in {j \in 1..fi : PushedOf(j) # <<>>}})
          /\ IsLatestOf(acc.last_updated_at,
                        {UpdatedOf(i)[1] : i \in {j \in 1..fi : UpdatedOf(j) # <<>>}}))
    /\ [][fi' = fi + 1 =>
             /\ acc.total_stars <= acc'.total_stars
             /\ acc.total_forks <= acc'.total_forks
             /\ TableLeq(acc.languages, acc'.languages)
             /\ TableLeq(acc.monthly_update_counts, acc'.monthly_update_counts)
             /\ acc.updated_last_30d <= acc'.updated_last_30d
             /\ acc.updated_last_90d <= acc'.updated_last_90d
             /\ acc.last_pushed_at # <<>> =>
                   /\ acc'.last_pushed_at # <<>>
                   /\ Ordinal(acc.last_pushed_at[1]) <= Ordinal(acc'.last_pushed_at[1])
             /\ acc.last_updated_at # <<>> =>
                   /\ acc'.last_updated_at # <<>>
                   /\ Ordinal(acc.last_updated_at[1]) <= Ordinal(acc'.last_updated_at[1])
        ]_vars

C16_Witness ==
    /\ phase = "fold" /\ fi = 2
    /\ PushedOf(1) # <<>> /\ PushedOf(2) # <<>>
    /\ Ordinal(PushedOf(2)[1]) < Ordinal(PushedOf(1)[1])
    /\ acc.last_pushed_at = PushedOf(1)
    /\ Len(acc.languages) = 2

\* C17 (as claimed): analyze_repos called a second time on the same list with
\* the same since_days, at whatever moment, returns the metrics of the first
\* call, updated_last_30d and updated_last_90d included.
C17_FoldIdempotent ==
    (phase = "report" /\ previous # <<>>) => metrics = previous[1]

\* C18: after every prefix of fi records, monthly_update_counts holds for each
\* year-month exactly the number of records of the prefix whose updated_at
\* parsed and lies in that month, no key with count zero and no key twice, so
\* its counts sum to the number of records with a parseable updated_at; the
\* metrics returned hold the same counts, the keys in ascending order.
C18_MonthBucketsExact ==
    LET InMonth(ym) == {i \in 1..fi : UpdatedOf(i) # <<>> /\ repos[i].updated_at[1] = ym}
        Exact(table) ==
            /\ DistinctKeys(table)
            /\ \A i \in 1..Len(table) : table[i].key \in Range(YearMonths) /\ table[i].n > 0
            /\ \A ym \in Range(YearMonths) : CountOf(table, ym) = Cardinality(InMonth(ym))
            /\ SumOfCounts(table) = Cardinality({i \in 1..fi : UpdatedOf(i) # <<>>})
    IN /\ Exact(acc.monthly_update_counts)
       /\ phase = "report" =>
             /\ fi = Len(repos)
             /\ Exact(metrics.monthly_update_counts)
             /\ \A i, j \in 1..Len(metrics.monthly_update_counts) :
                   i < j => MonthIndex(metrics.monthly_update_counts[i].key)
                              < MonthIndex(metrics.monthly_update_counts[j].key)

C18_Witness ==
    /\ phase = "report" /\ Len(repos) = 3
    /\ repos[1].updated_at = Stamp("2024-02", "0", "1", Utc)
    /\ metrics.monthly_update_counts =
          <<[key |-> "2024-01", n |-> 2], [key |-> "2024-02", n |-> 1]>>

\* C19 (as claimed): no timestamp that is absent, unparseable or parseable
\* without a UTC offset makes analyze_repos fail.
C19_TimestampsNeverFail ==
    ~(phase = "failed" /\ error = TypeError)

\* C20: the languages table returned lists every non-empty language of the
\* records once, with the number of records that name it, in descending order
\* of count, languages of equal count in the order in which they were first
\* seen.
C20_LanguagesTable ==
    LET t == metrics.languages
        Named(key) == {j \in 1..Len(repos) : repos[j].language = key}
        FirstSeen(key) == CHOOSE j \in Named(key) : \A l \in Named(key) : j <= l
    IN phase = "report" =>
          /\ DistinctKeys(t)
          /\ \A i \in 1..Len(t) : Truthy(t[i].key) /\ t[i].n = Cardinality(Named(t[i].key))
          /\ \A j \in 1..Len(repos) :
                Truthy(repos[j].language) => \E i \in 1..Len(t) : t[i].key = repos[j].language
          /\ \A i, k \in 1..Len(t) :
                i < k => \/ t[i].n > t[k].n
                         \/ t[i].n = t[k].n /\ FirstSeen(t[i].key) < FirstSeen(t[k].key)

C20_Witness ==
    /\ phase = "report" /\ Len(repos) = 3
    /\ ~Truthy(repos[2].language)
    /\ metrics.languages = <<[key |-> <<"Go">>, n |-> 1], [key |-> <<"Python">>, n |-> 1]>>

\* ------------------------------------------------------ bounded resources
\* The sleeps of the current http_get_json call, and the exception its
\* attempt a ended with.
Sleeps == {i \in 1..Len(trace) : trace[i].slept # <<>>}
ExceptionOf(a) ==
    CASE a.kind = "http" -> HTTPError(a.code)
      [] a.kind = "url" -> URLError
      [] a.kind = "other" -> JSONDecodeError

\* C21: one call of http_get_json makes at most retries + 1 requests and at
\* most retries + 1 sleeps whatever the responses are; it is under way only
\* while fewer than retries + 1 requests were made, and it ends by returning
\* the body of a 2xx or by raising the exception of its last attempt.
C21_BoundedAttempts ==
    /\ Len(trace) <= retries + 1
    /\ Cardinality(Sleeps) <= retries + 1
    /\ pc = "request" => Len(trace) = attempt /\ attempt <= retries
    /\ \A i \in 1..(Len(trace) - 1) : trace[i].kind # "ok" /\ trace[i].slept # <<>>
    /\ pc = "page" => LastAttempt.kind = "ok" /\ data = pages[Len(pages)].data
    /\ pc = "raised" => LastAttempt.kind # "ok" /\ error = ExceptionOf(LastAttempt)

C21_Witness ==
    /\ pc = "raised" /\ Len(trace) = retries + 1
    /\ Cardinality(Sleeps) = retries + 1
    /\ trace[1].kind = "other" /\ trace[2].kind = "url"
    /\ trace[3].code = 503 /\ trace[4].code = 403

\* The report file of a developer.
ReportOf(user) == (CHOOSE f \in report_files : f[1] = user)[2]

\* C22: summary.csv is written once, when run has processed every developer
\* of the list: it then holds one row per developer in input order, as many
\* as there are report files, each row with the figures of that developer's
\* report; while developers are being processed, and when the processing of
\* one has failed, there is no summary.csv, whatever reports were written.
C22_SummaryAfterAllDevelopers ==
    /\ [](summary_csv # <<>> <=> phase = "finished")
    /\ [](phase = "finished" =>
            LET rows == summary_csv[1]
            IN /\ di = Len(developers)
               /\ rows = summary_rows
               /\ Len(rows) = Len(developers)
               /\ Len(rows) = Cardinality(report_files)
               /\ \A j \in 1..Len(rows) :
                     /\ rows[j].username = developers[j]
                     /\ HasReport(developers[j])
                     /\ rows[j].repo_count = ReportOf(developers[j]).metrics.repo_count
                     /\ rows[j].total_stars = ReportOf(developers[j]).metrics.total_stars
                     /\ rows[j].last_updated_at
                           = ReportOf(developers[j]).metrics.last_updated_at)
    /\ [][summary_csv' # summary_csv => summary_csv = <<>> /\ phase = "report"]_vars

C22_Witness ==
    /\ phase = "finished" /\ summary_csv # <<>>
    /\ Len(summary_csv[1]) = 3
    /\ summary_csv[1][1].repo_count = 0
    /\ summary_csv[1][2].repo_count = 4
    /\ summary_csv[1][3].repo_count = 2

\* C23: for since_days >= 30, after every prefix of the records and in the
\* metrics returned, updated_last_30d <= updated_last_90d <= the sum of
\* monthly_update_counts <= the number of records, the 30-day bound being
\* read from the clock for each record and the cutoff once before the loop.
C23_WindowCountsOrdered ==
    since_days >= 30 =>
        /\ acc.updated_last_30d <= acc.updated_last_90d
        /\ acc.updated_last_90d <= SumOfCounts(acc.monthly_update_counts)
        /\ SumOfCounts(acc.monthly_update_counts) <= fi
        /\ phase = "report" =>
              /\ metrics.updated_last_30d <= metrics.updated_last_90d
              /\ metrics.updated_last_90d <= SumOfCounts(metrics.monthly_update_counts)
              /\ SumOfCounts(metrics.monthly_update_counts) <= metrics.repo_count

\* The clock moved between the cutoff and a record's 30-day bound: of two
\* records with the same updated_at one is in the 30-day window, both are in
\* the since_days window, and a third has no parseable updated_at.
C23_Witness ==
    /\ phase = "report" /\ since_days = 30 /\ Len(repos) = 3
    /\ acc.cutoff + since_days < clock
    /\ repos[2].updated_at = repos[3].updated_at
    /\ metrics.updated_last_30d = 1 /\ metrics.updated_last_90d = 2
    /\ SumOfCounts(metrics.monthly_update_counts) = 2 /\ metrics.repo_count = 3

====
